---- MODULE Spec2Model ----
(***************************************************************************)
(* Long division of arbitraire (src/src/div.c): arb_div, arb_div_inter and *)
(* the digit-array primitives shmul, _long_sub and _long_add, modelled as  *)
(* a state machine over the C memory the functions touch.                  *)
(*                                                                         *)
(* A C array is a sequence; C index k is TLA+ index k+1.  A pointer is a   *)
(* record [buf, off]: the buffer it points into and the slot offset from   *)
(* the buffer's base.  Every load and store is checked against the extent  *)
(* of the buffer; an access outside it, a free through a pointer that is   *)
(* not a live base pointer, and a load of a never-written malloc slot are  *)
(* undefined behaviour and lead to the state pc = "ub", of which nothing   *)
(* more is said.                                                           *)
(***************************************************************************)
EXTENDS Integers, Sequences, FiniteSets, TLC

\* ---------------------------------------------------------------- bounds
MaxLen == 2
MaxScale == 1
Bases == {2, 3}

\* ------------------------------------------------------------ arithmetic
Zeros(n) == [k \in 1..n |-> 0]

Indet == 0 - 1

Indets(n) == [k \in 1..n |-> Indet]

RECURSIVE Pow(_, _)
Pow(b, n) == IF n = 0 THEN 1 ELSE b * Pow(b, n - 1)

RECURSIVE Val(_, _)
Val(s, b) == IF Len(s) = 0 THEN 0
             ELSE Val(SubSeq(s, 1, Len(s) - 1), b) * b + s[Len(s)]

RECURSIVE LeadingZeros(_)
LeadingZeros(s) == IF Len(s) = 0 \/ s[1] # 0 THEN 0
                   ELSE 1 + LeadingZeros(Tail(s))

\* ------------------------------------------------------------- the inputs
\* a division: base, scale, the digits and integer-part length of num and den
In(bs, s, nd, np, dd, dp) ==
    [base |-> bs, scale |-> s, num |-> [number |-> nd, lp |-> np],
     den |-> [number |-> dd, lp |-> dp]]

\* base 10 divisions: the documented scenarios, and operands that drive the
\* loop through two decrements and through the add-back
Scenarios ==
    { In(10, 4, <<1, 0, 0, 0>>, 4, <<3>>, 1),
      In(10, 5, <<0, 0, 1>>, 1, <<1, 0, 0>>, 3),
      In(10, 1, <<0, 0, 1>>, 1, <<1, 0, 0>>, 3),
      In(10, 5, <<0, 1>>, 0, <<1, 0, 0>>, 3),
      In(10, 2, <<7>>, 1, <<0>>, 1),
      In(10, 0, <<4, 0, 5, 2>>, 4, <<5, 9, 4>>, 3),
      In(10, 1, <<3, 7, 0>>, 3, <<2, 8, 5>>, 3),
      In(10, 1, <<4, 5, 1, 9>>, 4, <<5, 9, 5>>, 3),
      In(10, 1, <<9, 4, 9, 2>>, 4, <<1, 1, 9>>, 3),
      In(10, 1, <<9, 4, 9, 2>>, 2, <<1, 1, 9>>, 1),
      In(10, 2, <<9, 8, 3, 7>>, 1, <<0, 9, 8, 6>>, 2),
      In(4, 1, <<3, 0, 1, 2>>, 4, <<1, 3, 3>>, 3) }

\* ------------------------------------------------------------- the state
VARIABLES pc, base, scale, num, den, mem, heap, q,
          u, v, vf, temp, lea, uscal, offset, leb, quodig, out_of_scale,
          norm, i, j, qg,
          win, trial, iters, decs, borrowed, addbacks, shcarry, qshape, ub

inVars == <<base, scale, num, den>>
locVars == <<u, v, vf, temp, lea, uscal, offset, leb, quodig, out_of_scale,
             norm, i, j, qg>>
ghostVars == <<win, trial, iters, decs, borrowed, addbacks, shcarry, qshape, ub>>
vars == <<pc, inVars, mem, heap, q, locVars, ghostVars>>

Bufs == {"num", "den", "c", "c2", "u", "vf", "temp"}

NULL == [buf |-> "null", off |-> 0]

Ptr(n, k) == [buf |-> n, off |-> k]

\* ------------------------------------------------------ memory primitives
InExtent(m, h, p, k) == /\ p.buf \in Bufs
                        /\ h[p.buf] = "live"
                        /\ p.off + k >= 0
                        /\ p.off + k < Len(m[p.buf])

RangeOk(m, h, p, k0, n) == n <= 0 \/ (InExtent(m, h, p, k0) /\ InExtent(m, h, p, k0 + n - 1))

Rd(m, p, k) == IF p.buf \in Bufs /\ p.off + k + 1 \in 1..Len(m[p.buf])
               THEN m[p.buf][p.off + k + 1] ELSE Indet

RdSeq(m, p, k0, n) == [x \in 1..n |-> Rd(m, p, k0 + x - 1)]

Wr(m, p, k, val) == IF p.buf \in Bufs /\ p.off + k + 1 \in 1..Len(m[p.buf])
                    THEN [m EXCEPT ![p.buf][p.off + k + 1] = val] ELSE m

WrSeq(m, p, k0, s) ==
    IF p.buf \notin Bufs THEN m ELSE
    [m EXCEPT ![p.buf] = [x \in 1..Len(@) |->
        IF x - 1 - p.off - k0 \in 0..(Len(s) - 1) THEN s[x - p.off - k0] ELSE @[x]]]

Initialised(m, p, k0, n) == \A x \in 0..(n - 1) : Rd(m, p, k0 + x) # Indet

\* --------------------------------------------------- collaborators (general.c)
rl(n) == n.lp

rr(n) == n.len - n.lp

iszero(m, n, p) == IF \E k \in 0..(n.len - 1) : Rd(m, p, k) # 0 THEN 1 ELSE 0

RECURSIVE arb_mul_core_loop(_, _, _, _, _, _, _)
arb_mul_core_loop(m, ap, k, digit, cp, bs, carry) ==
    IF k = 0 THEN Wr(m, cp, 0, carry)
    ELSE LET prod == Rd(m, ap, k - 1) * digit + carry
         IN arb_mul_core_loop(Wr(m, cp, k, prod % bs), ap, k - 1, digit, cp, bs,
                              prod \div bs)

arb_mul_core(m, ap, alen, digit, cp, bs) ==
    arb_mul_core_loop(m, ap, alen, digit, cp, bs, 0)

remove_leading_zeros(m, qp, qq) ==
    LET z == LeadingZeros(RdSeq(m, qp, 0, qq.lp))
    IN [mem |-> WrSeq(m, qp, 0, RdSeq(m, qp, z, qq.len - z)),
        q |-> [len |-> qq.len - z, lp |-> qq.lp - z]]

\* ------------------------------------------------ digit-array primitives
RECURSIVE shmul_loop(_, _, _, _, _, _, _)
shmul_loop(m, src, k, digit, dst, bs, carry) ==
    IF k = 0 THEN [mem |-> m, carry |-> carry]
    ELSE LET value == Rd(m, src, k - 1) * digit + carry
         IN shmul_loop(Wr(m, dst, k - 1, value % bs), src, k - 1, digit, dst, bs,
                       value \div bs)

shmul(m, src, size, digit, dst, bs) ==
    IF digit = 0 THEN [mem |-> WrSeq(m, dst, 0, Zeros(size)), carry |-> 0]
    ELSE IF digit = 1
         THEN [mem |-> WrSeq(m, dst, 0, RdSeq(m, src, 0, size)), carry |-> 0]
         ELSE LET r == shmul_loop(m, src, size, digit, dst, bs, 0)
              IN IF r.carry # 0
                 THEN [mem |-> Wr(r.mem, dst, 0 - 1, r.carry), carry |-> r.carry]
                 ELSE r

RECURSIVE long_sub(_, _, _, _, _, _, _)
long_sub(m, up, ui, vp, k, bs, borrow) ==
    IF k < 0 THEN [mem |-> m, ret |-> borrow]
    ELSE LET val == Rd(m, up, ui) - Rd(m, vp, k) - borrow
         IN IF val < 0
            THEN long_sub(Wr(m, up, ui, val + bs), up, ui - 1, vp, k - 1, bs, 1)
            ELSE long_sub(Wr(m, up, ui, val), up, ui - 1, vp, k - 1, bs, 0)

RECURSIVE long_add(_, _, _, _, _, _, _)
long_add(m, up, ui, vp, k, bs, carry) ==
    IF k < 0 THEN [mem |-> m, ret |-> carry]
    ELSE LET val == Rd(m, up, ui) + Rd(m, vp, k) + carry
         IN IF val >= bs
            THEN long_add(Wr(m, up, ui, val - bs), up, ui - 1, vp, k - 1, bs, 1)
            ELSE long_add(Wr(m, up, ui, val), up, ui - 1, vp, k - 1, bs, 0)

\* ------------------------------------------------------------ allocation
Alloc(h, n) == [h EXCEPT ![n] = "live"]

FreeOk(h, p) == p.buf \in Bufs /\ h[p.buf] = "live" /\ p.off = 0

Free(h, p) == [h EXCEPT ![p.buf] = "freed"]

\* the state undefined behaviour leads to
Undefined(why) == /\ pc' = "ub"
                  /\ ub' = why
                  /\ UNCHANGED <<inVars, mem, heap, q, locVars, win, trial, iters,
                                 decs, borrowed, addbacks, shcarry, qshape>>

\* ------------------------------------------- arb_div_inter: sizes and tests
QuotientCapacity == num.len + den.len + scale

USizeTight == num.len + offset' + 1

USize == num.len + offset' + 3

VSize == den.len + offset' + 3

TempSize == den.len + 1

OutOfScaleNoScale == leb > lea

OutOfScale == leb > lea + scale

QuodigUnclamped == IF OutOfScale THEN scale + 1 ELSE lea - leb + scale + 1

Quodig == IF OutOfScale THEN scale + 1
          ELSE IF ~(leb > lea) THEN lea - leb + scale + 1 ELSE scale + 1

NormFromDividend == base \div (Rd(mem, u, 1) + 1)

Norm == base \div (Rd(mem, v, 0) + 1)

NormalizedOperand == Ptr("den", v.off)

NormalizedDivisor == v

LoopCondStrict == i < lea + scale - leb

LoopCond == i <= lea + scale - leb

TrialDigitOneDigit == IF Rd(mem, v, 0) # Rd(mem, u, i)
                      THEN (Rd(mem, u, i) * base) \div Rd(mem, v, 0)
                      ELSE base - 1

TrialDigit == IF Rd(mem, v, 0) # Rd(mem, u, i)
              THEN (Rd(mem, u, i) * base + Rd(mem, u, i + 1)) \div Rd(mem, v, 0)
              ELSE base - 1

TooBig(g) == Rd(mem, v, 1) * g >
             (Rd(mem, u, i) * base + Rd(mem, u, i + 1) - Rd(mem, v, 0) * g) * base
                 + Rd(mem, u, i + 2)

Unrefined(g) == g

Refined(g) == IF TooBig(g)
              THEN IF TooBig(g - 1) THEN g - 2 ELSE g - 1
              ELSE g

FreedDivisorAdvanced == v

FreedDivisor == vf

\* --------------------------------------------------------------- actions
Load(bs, s, nd, np, dd, dp) ==
    /\ base = bs
    /\ scale = s
    /\ num = [len |-> Len(nd), lp |-> np]
    /\ den = [len |-> Len(dd), lp |-> dp]
    /\ mem = [n \in Bufs |-> IF n = "num" THEN nd
                             ELSE IF n = "den" THEN dd
                             ELSE IF n = "c" THEN Zeros(1) ELSE <<>>]

\* every division of the bases in Bases with operands of at most MaxLen digits
SmallInputs ==
    \E bs \in Bases, s \in 0..MaxScale, nl \in 1..MaxLen, dl \in 1..MaxLen :
        \E nd \in [1..nl -> 0..(bs - 1)], np \in 0..nl,
           dd \in [1..dl -> 0..(bs - 1)], dp \in 0..dl :
            Load(bs, s, nd, np, dd, dp)

\* every base 5 division to one fractional digit with operands of one or two
\* digits: the smallest base in which the trial digit is decremented twice
Base5Inputs ==
    \E nl \in 1..2, dl \in 1..2 :
        \E nd \in [1..nl -> 0..4], np \in 0..nl,
           dd \in [1..dl -> 0..4], dp \in 0..dl :
            Load(5, 1, nd, np, dd, dp)

ScenarioInputs ==
    \E x \in Scenarios :
        Load(x.base, x.scale, x.num.number, x.num.lp, x.den.number, x.den.lp)

Init == /\ pc = "arb_div"
        /\ (SmallInputs \/ Base5Inputs \/ ScenarioInputs)
        /\ heap = [n \in Bufs |-> IF n \in {"num", "den", "c"} THEN "live" ELSE "none"]
        /\ q = [len |-> 0, lp |-> 0]
        /\ u = NULL /\ v = NULL /\ vf = NULL /\ temp = NULL
        /\ lea = 0 /\ uscal = 0 /\ offset = 0 /\ leb = 0
        /\ quodig = scale + 1 /\ out_of_scale = 0
        /\ norm = 0 /\ i = 0 /\ j = 0 /\ qg = 0
        /\ win = 0 /\ trial = 0 /\ iters = 0 /\ decs = 0 /\ borrowed = 0 /\ addbacks = 0
        /\ shcarry = <<0, 0>> /\ qshape = [len |-> 0, lp |-> 0]
        /\ ub = "none"

\* arb_div, up to the call of arb_div_inter.  arb_expand(NULL, n) is taken to
\* return n zero digits and arb_init to set len = lp = 0: the early-out path
\* of arb_div_inter stores no digit and returns what arb_expand left there.
\* The sign set by arb_setsign is not modelled.
ArbDivEntry ==
    /\ pc = "arb_div"
    /\ heap' = Alloc(heap, "c2")
    /\ mem' = [mem EXCEPT !["c2"] = Zeros(QuotientCapacity)]
    /\ q' = [len |-> 0, lp |-> 0]
    /\ pc' = "zero_test"
    /\ UNCHANGED <<inVars, locVars, ghostVars>>

\* if (iszero(den) == 0) arb_error("divide by zero\n");
\* arb_error ends the process (pc = "exit"): nothing is freed or returned.
ZeroTest ==
    /\ pc = "zero_test"
    /\ pc' = IF iszero(mem, den, Ptr("den", 0)) = 0 THEN "exit" ELSE "prepare"
    /\ UNCHANGED <<inVars, mem, heap, q, locVars, ghostVars>>

\* the sizing parameters and the three working buffers
Prepare ==
    /\ pc = "prepare"
    /\ lea' = rl(num) + rr(den)
    /\ uscal' = rr(num) - rr(den)
    /\ offset' = IF uscal' < scale THEN scale - uscal' ELSE 0
    /\ LET h1 == Alloc(Alloc(Alloc(heap, "u"), "vf"), "temp")
           m0 == [mem EXCEPT !["u"] = Zeros(USize), !["vf"] = Zeros(VSize),
                             !["temp"] = Indets(TempSize)]
           up == Ptr("u", 0)
           vp == Ptr("vf", 0)
       IN IF /\ RangeOk(m0, h1, up, 1, num.len)
             /\ RangeOk(m0, h1, Ptr("num", 0), 0, num.len)
             /\ RangeOk(m0, h1, vp, 0, den.len)
             /\ RangeOk(m0, h1, Ptr("den", 0), 0, den.len)
          THEN /\ heap' = h1
               /\ mem' = WrSeq(WrSeq(m0, up, 1, RdSeq(m0, Ptr("num", 0), 0, num.len)),
                               vp, 0, RdSeq(m0, Ptr("den", 0), 0, den.len))
               /\ u' = up /\ v' = vp /\ vf' = vp /\ temp' = Ptr("temp", 0)
               /\ leb' = den.len
               /\ pc' = "strip"
               /\ ub' = ub
          ELSE /\ pc' = "ub" /\ ub' = "oob"
               /\ UNCHANGED <<mem, heap, u, v, vf, temp, leb>>
    /\ UNCHANGED <<inVars, q, quodig, out_of_scale, norm, i, j, qg,
                   win, trial, iters, decs, borrowed, addbacks, shcarry, qshape>>

\* for (;*v == 0; v++, leb--);
StripDivisor ==
    /\ pc = "strip"
    /\ LET z == LeadingZeros(RdSeq(mem, v, 0, Len(mem[v.buf]) - v.off))
       IN IF InExtent(mem, heap, v, z)
          THEN /\ v' = Ptr(v.buf, v.off + z)
               /\ leb' = leb - z
               /\ pc' = "size"
               /\ UNCHANGED <<inVars, mem, heap, q, u, vf, temp, lea, uscal, offset,
                              quodig, out_of_scale, norm, i, j, qg, ghostVars>>
          ELSE Undefined("oob")

\* out_of_scale, quodig and the quotient's shape
Sizing ==
    /\ pc = "size"
    /\ out_of_scale' = IF OutOfScale THEN 1 ELSE 0
    /\ quodig' = Quodig
    /\ q' = [lp |-> quodig' - scale, len |-> (quodig' - scale) + scale]
    /\ qshape' = q'
    /\ pc' = IF out_of_scale' = 1 THEN "end" ELSE "normalize"
    /\ UNCHANGED <<inVars, mem, heap, u, v, vf, temp, lea, uscal, offset, leb,
                   norm, i, j, qg, win, trial, iters, decs, borrowed, addbacks,
                   shcarry, ub>>

\* D1: norm = b / (v[0] + 1), both working copies through shmul; the first j
Normalize ==
    /\ pc = "normalize"
    /\ IF ~InExtent(mem, heap, v, 0) THEN Undefined("oob")
       ELSE
       LET n == Norm
           usize == lea + uscal + offset + 1
           r1 == shmul(mem, u, usize, n, u, base)
           dst == NormalizedDivisor
           r2 == shmul(r1.mem, v, leb, n, dst, base)
           ok == /\ RangeOk(mem, heap, u, 0, usize)
                 /\ RangeOk(mem, heap, v, 0, leb)
                 /\ RangeOk(mem, heap, dst, 0, leb)
                 /\ r1.carry # 0 => InExtent(mem, heap, u, 0 - 1)
                 /\ r2.carry # 0 => InExtent(mem, heap, dst, 0 - 1)
       IN IF n = 1
          THEN /\ norm' = n
               /\ j' = IF leb > lea THEN leb - lea ELSE 0
               /\ qg' = base - 1
               /\ pc' = "loop"
               /\ UNCHANGED <<inVars, mem, heap, q, u, v, vf, temp, lea, uscal,
                              offset, leb, quodig, out_of_scale, i, ghostVars>>
          ELSE IF ok
          THEN /\ norm' = n
               /\ mem' = r2.mem
               /\ shcarry' = <<r1.carry, r2.carry>>
               /\ j' = IF leb > lea THEN leb - lea ELSE 0
               /\ qg' = base - 1
               /\ pc' = "loop"
               /\ UNCHANGED <<inVars, heap, q, u, v, vf, temp, lea, uscal, offset,
                              leb, quodig, out_of_scale, i, win, trial, iters, decs,
                              borrowed, addbacks, qshape, ub>>
          ELSE Undefined("oob")

\* D3: the trial digit and its refinement by the divisor's second digit
Guess ==
    /\ pc = "loop"
    /\ LoopCond
    /\ IF /\ RangeOk(mem, heap, u, i, 3)
          /\ RangeOk(mem, heap, v, 0, 2)
       THEN /\ qg' = Refined(TrialDigit)
            /\ trial' = qg'
            /\ decs' = TrialDigit - qg'
            /\ win' = Val(RdSeq(mem, u, i, leb + 1), base)
            /\ pc' = "d4"
            /\ UNCHANGED <<inVars, mem, heap, q, u, v, vf, temp, lea, uscal, offset,
                           leb, quodig, out_of_scale, norm, i, j, iters, borrowed,
                           addbacks, shcarry, qshape, ub>>
       ELSE Undefined("oob")

\* D4 to D7: multiply and subtract, add back, store the digit, step the loop
MulSub ==
    /\ pc = "d4"
    /\ LET m1 == arb_mul_core(mem, v, leb, qg, temp, base)
           sub == long_sub(m1, Ptr(u.buf, u.off + leb), i, temp, leb, base, 0)
           add == long_add(sub.mem, Ptr(u.buf, u.off + leb), i, v, leb - 1, base, 0)
           m2 == IF qg = 0 THEN mem
                 ELSE IF sub.ret = 0 THEN sub.mem
                 ELSE IF add.ret # 0 THEN Wr(add.mem, u, 0, 0) ELSE add.mem
           digit == IF qg # 0 /\ sub.ret # 0 THEN qg - 1 ELSE qg
           ok == /\ qg # 0 => /\ RangeOk(mem, heap, v, 0, leb)
                              /\ RangeOk(mem, heap, temp, 0, leb + 1)
                              /\ RangeOk(mem, heap, u, i, leb + 1)
                              /\ Initialised(m1, temp, 0, leb + 1)
                 /\ InExtent(mem, heap, Ptr("c2", 0), j)
       IN IF ok
          THEN /\ mem' = Wr(m2, Ptr("c2", 0), j, digit)
               /\ borrowed' = IF qg = 0 THEN 0 ELSE sub.ret
               /\ addbacks' = IF qg # 0 /\ sub.ret # 0 THEN 1 ELSE 0
               /\ i' = i + 1
               /\ j' = j + 1
               /\ qg' = base - 1
               /\ iters' = iters + 1
               /\ pc' = "loop"
               /\ UNCHANGED <<inVars, heap, q, u, v, vf, temp, lea, uscal, offset,
                              leb, quodig, out_of_scale, norm, win, trial, decs,
                              shcarry, qshape, ub>>
          ELSE Undefined("oob")

\* the loop has exhausted its bound
LoopExit ==
    /\ pc = "loop"
    /\ ~LoopCond
    /\ pc' = "end"
    /\ UNCHANGED <<inVars, mem, heap, q, locVars, ghostVars>>

\* end: remove_leading_zeros and the three frees
End ==
    /\ pc = "end"
    /\ LET r == remove_leading_zeros(mem, Ptr("c2", 0), q)
           h1 == Free(heap, temp)
           h2 == Free(h1, u)
           fd == FreedDivisor
       IN IF ~RangeOk(mem, heap, Ptr("c2", 0), 0, q.len) THEN Undefined("oob")
          ELSE IF FreeOk(heap, temp) /\ FreeOk(h1, u) /\ FreeOk(h2, fd)
          THEN /\ mem' = r.mem
               /\ q' = r.q
               /\ heap' = Free(h2, fd)
               /\ pc' = "ret"
               /\ UNCHANGED <<inVars, locVars, ghostVars>>
          ELSE Undefined("free")

\* arb_div after the call: arb_free(c); return c2
ArbDivReturn ==
    /\ pc = "ret"
    /\ IF FreeOk(heap, Ptr("c", 0))
       THEN /\ heap' = Free(heap, Ptr("c", 0))
            /\ pc' = "done"
            /\ UNCHANGED <<inVars, mem, q, locVars, ghostVars>>
       ELSE Undefined("free")

Next == \/ ArbDivEntry
        \/ ZeroTest
        \/ Prepare
        \/ StripDivisor
        \/ Sizing
        \/ Normalize
        \/ Guess
        \/ MulSub
        \/ LoopExit
        \/ End
        \/ ArbDivReturn

Spec == Init /\ [][Next]_vars

\* ------------------------------------------------- values used by the claims
QuotientPtr == Ptr("c2", 0)

QDigits == RdSeq(mem, QuotientPtr, 0, q.len)

NumVal == Val(mem["num"], base)

DenVal == Val(mem["den"], base)

QVal == Val(QDigits, base)

\* N * b^(rr(den) + scale) and D * b^(rr(num)): N / D >= k * b^(-scale) iff
\* ScaledNum >= k * ScaledDen
ScaledNum == NumVal * Pow(base, rr(den) + scale)

ScaledDen == DenVal * Pow(base, rr(num))

DivisorVal == Val(RdSeq(mem, v, 0, leb), base)

DigitsOk(sq) == \A k \in 1..Len(sq) : sq[k] \in 0..(base - 1)

Is(bs, s, nd, np, dd, dp) ==
    /\ base = bs /\ scale = s
    /\ mem["num"] = nd /\ num.lp = np
    /\ mem["den"] = dd /\ den.lp = dp

Returned == pc \in {"ret", "done"}

Sized == pc \in {"normalize", "loop", "d4", "end", "ret", "done"}

\* ------------------------------------------------------------------ claims

\* C1: for a non-zero divisor the returned quotient has scale fractional
\* digits, all digits in [0, base), and the value of N/D truncated to scale
\* fractional digits: 0 <= N - Q*D < D * base^(-scale).  1000 / 3 at scale 4
\* in base 10 is 333.3333 (3 integer, 4 fractional digits); N / N is 1
\* followed by scale zero digits.
C1_QuotientTruncated ==
    pc = "done" =>
        /\ q.len - q.lp = scale
        /\ DigitsOk(QDigits)
        /\ 0 <= ScaledNum - QVal * ScaledDen
        /\ ScaledNum - QVal * ScaledDen < ScaledDen
        /\ Is(10, 4, <<1, 0, 0, 0>>, 4, <<3>>, 1) =>
               QDigits = <<3, 3, 3, 3, 3, 3, 3>> /\ q.lp = 3 /\ q.len = 7
        /\ (mem["num"] = mem["den"] /\ num.lp = den.lp) =>
               QDigits = <<1>> \o Zeros(scale) /\ q.lp = 1

C1_Witness ==
    /\ pc = "done"
    /\ Is(10, 4, <<1, 0, 0, 0>>, 4, <<3>>, 1)
    /\ QDigits = <<3, 3, 3, 3, 3, 3, 3>>

\* C2: with a zero divisor the zero test comes before any allocation of the
\* call, the working buffers and the stripping scan are never reached, the
\* call ends in an error reported to the caller (the process is not ended)
\* and no buffer the call allocated is held at that point.
C2_ZeroDivisorHoldsNothing ==
    iszero(mem, den, Ptr("den", 0)) = 0 =>
        /\ pc \in {"arb_div", "zero_test", "exit"}
        /\ pc \in {"arb_div", "zero_test"} =>
               \A n \in {"c2", "u", "vf", "temp"} : heap[n] = "none"
        /\ pc = "exit" => \A n \in {"c2", "u", "vf", "temp"} : heap[n] # "live"

\* C3, as claimed: 0.01 / 100 at scale 5 in base 10 takes the zero-result
\* early-out, runs no loop iteration and returns zero.
C3_EarlyOutAtScale5 ==
    (pc = "done" /\ Is(10, 5, <<0, 0, 1>>, 1, <<1, 0, 0>>, 3)) =>
        out_of_scale = 1 /\ iters = 0 /\ QVal = 0

\* C3, amended: 0.01 / 100 at scale 5 in base 10 (0.01 written 0.01 or .01)
\* does not take the early-out, since divisorWidth = 3 <= intWidth + scale:
\* the loop runs intWidth + 5 - 3 + 1 times and the quotient is .00010; at
\* scale 1 the same division does take the early-out and returns zero.
C3_LoopAtScale5 ==
    /\ (pc = "done" /\ Is(10, 5, <<0, 0, 1>>, 1, <<1, 0, 0>>, 3)) =>
           /\ out_of_scale = 0 /\ iters = 4
           /\ QDigits = <<0, 0, 0, 1, 0>> /\ q.lp = 0
    /\ (pc = "done" /\ Is(10, 5, <<0, 1>>, 0, <<1, 0, 0>>, 3)) =>
           /\ out_of_scale = 0 /\ iters = 3
           /\ QDigits = <<0, 0, 0, 1, 0>> /\ q.lp = 0
    /\ (pc = "done" /\ Is(10, 1, <<0, 0, 1>>, 1, <<1, 0, 0>>, 3)) =>
           /\ out_of_scale = 1 /\ iters = 0
           /\ QDigits = <<0>> /\ q.lp = 0

C3_Witness ==
    /\ pc = "done"
    /\ Is(10, 5, <<0, 0, 1>>, 1, <<1, 0, 0>>, 3)
    /\ iters = 4

\* C4: when arb_div_inter has returned, by the loop or by the early-out, u,
\* the divisor copy and temp have each been freed, the divisor copy through
\* its base pointer vf; no free was of a pointer that is not a live base
\* pointer (so none was freed twice).
C4_WorkingBuffersFreedOnce ==
    /\ ub # "free"
    /\ Returned =>
           /\ \A n \in {"u", "vf", "temp"} : heap[n] = "freed"
           /\ vf = Ptr("vf", 0) /\ v.buf = "vf"
    /\ pc \in {"strip", "size", "normalize", "loop", "d4", "end"} =>
           \A n \in {"u", "vf", "temp"} : heap[n] = "live"

C4_Witness ==
    /\ pc = "done"
    /\ v.off > 0
    /\ out_of_scale = 1
    /\ \A n \in {"u", "vf", "temp"} : heap[n] = "freed"

\* C5: no step changes the digits, length or integer-part length of num or
\* of den; the only buffers written are u, vf, temp and the quotient's.
C5_OperandsUnchanged ==
    [][/\ mem'["num"] = mem["num"] /\ num' = num
       /\ mem'["den"] = mem["den"] /\ den' = den
       /\ mem'["c"] = mem["c"]]_vars

C5_Witness ==
    /\ pc = "done"
    /\ norm > 1
    /\ iters > 1
    /\ SubSeq(mem["vf"], 1, den.len) # mem["den"]

\* C6: the early-out is taken exactly when divisorWidth > intWidth + scale;
\* then no loop iteration runs (the loop bound is only evaluated when it is
\* not negative) and the quotient is zero, which is N/D truncated; otherwise
\* the loop runs intWidth + scale - divisorWidth + 1 times and ends.
C6_EarlyOutAndIterations ==
    /\ Sized => (out_of_scale = 1 <=> leb > lea + scale)
    /\ pc \in {"loop", "d4"} => lea + scale - leb >= 0 /\ i <= lea + scale - leb + 1
    /\ (pc \in {"end", "ret", "done"} /\ out_of_scale = 1) => iters = 0
    /\ (pc \in {"end", "ret", "done"} /\ out_of_scale = 0) =>
           iters = lea + scale - leb + 1
    /\ (pc = "done" /\ out_of_scale = 1) =>
           /\ \A k \in 1..Len(QDigits) : QDigits[k] = 0
           /\ ScaledNum < ScaledDen

C6_Witness ==
    /\ pc = "done"
    /\ leb = lea + scale
    /\ iters = 1
    /\ QVal # 0

\* C7, as claimed: whenever the early-out is not taken the quotient's length
\* before stripping is intWidth - divisorWidth + scale + 1 and its
\* integer-part length is that number minus scale.
C7_LengthAlwaysByFormula ==
    (Sized /\ out_of_scale = 0) =>
        /\ qshape.len = lea - leb + scale + 1
        /\ qshape.lp = qshape.len - scale

\* C7, amended: when the early-out is not taken and divisorWidth <= intWidth
\* the quotient's length before stripping is intWidth - divisorWidth + scale
\* + 1 and its integer-part length that number minus scale; when intWidth <
\* divisorWidth <= intWidth + scale the length is scale + 1 and the
\* integer-part length 1, and the loop writes its intWidth + scale -
\* divisorWidth + 1 digits from index divisorWidth - intWidth to index scale.
C7_LengthByCase ==
    /\ (Sized /\ out_of_scale = 0 /\ leb <= lea) =>
           /\ qshape.len = lea - leb + scale + 1
           /\ qshape.lp = qshape.len - scale
           /\ pc \in {"loop", "d4"} => j = i
    /\ (Sized /\ out_of_scale = 0 /\ leb > lea) =>
           /\ qshape.len = scale + 1
           /\ qshape.lp = 1
           /\ pc \in {"loop", "d4"} => j = i + (leb - lea)
    /\ (pc \in {"end", "ret", "done"} /\ out_of_scale = 0) => j = qshape.len
    /\ pc \in {"size", "normalize", "loop", "d4", "end"} => q = qshape

C7_Witness ==
    /\ pc = "done"
    /\ out_of_scale = 0
    /\ leb > lea
    /\ iters = lea + scale - leb + 1
    /\ QVal # 0

C9_TrialDigit ==
    /\ pc = "d4" =>
           /\ win < base * DivisorVal
           /\ decs \in 0..2
           /\ trial = qg
           /\ qg \in {win \div DivisorVal, (win \div DivisorVal) + 1}
    /\ (pc = "loop" /\ iters > 0) =>
           LET tq == win \div DivisorVal
               rem == Val(RdSeq(mem, u, i, leb), base)
           IN /\ trial \in {tq, tq + 1}
              /\ borrowed = 1 <=> trial = tq + 1
              /\ addbacks = borrowed
              /\ Rd(mem, QuotientPtr, j - 1) = tq
              /\ tq \in 0..(base - 1)
              /\ rem = win - tq * DivisorVal
              /\ rem >= 0 /\ rem < DivisorVal

C9_Witness ==
    /\ pc = "loop" /\ iters > 0
    /\ borrowed = 1 /\ addbacks = 1
    /\ decs > 0
    /\ leb >= 3

\* C10: no load or store leaves the extent of the buffer it addresses (u of
\* num->len + offset + 3 slots, v of den->len + offset + 3, temp of
\* den->len + 1, the quotient of a->len + b->len + scale); every quotient
\* digit is stored at an index j < q->len <= the quotient's capacity, the
\* last at q->len - 1; both normalization calls of shmul end with carry 0.
C10_AccessesInExtent ==
    /\ ub # "oob" /\ pc # "ub"
    /\ shcarry = <<0, 0>>
    /\ Sized => q.len <= Len(mem["c2"])
    /\ pc = "d4" => j < q.len
    /\ (pc = "end" /\ out_of_scale = 0) => j = q.len
    /\ heap["u"] = "live" => Len(mem["u"]) = num.len + offset + 3
    /\ heap["vf"] = "live" => Len(mem["vf"]) = den.len + offset + 3
    /\ heap["temp"] = "live" => Len(mem["temp"]) = den.len + 1
    /\ heap["c2"] = "live" => Len(mem["c2"]) = num.len + den.len + scale

C10_Witness ==
    /\ pc = "d4"
    /\ leb = 1
    /\ i = lea + scale - leb
    /\ u.off + i + 2 = Len(mem["u"]) - 2
    /\ uscal < scale
    /\ norm > 1

====
